---- MODULE Spec2Model ----
(***************************************************************************)
(* Model of gai-cli (src/src/index.ts): one invocation of the CLI action.  *)
(* The action is a sequential pipeline of external calls (git add, git     *)
(* diff, git log, the generation backend, git commit); every external call *)
(* is one step whose outcome is chosen nondeterministically.               *)
(* Text is modelled as a sequence of one-character strings.                *)
(***************************************************************************)
EXTENDS Integers, Sequences, FiniteSets, TLC

\* ---------------------------------------------------------------- bounds
\* longest commit message text (literal, generated, backend reply)
MaxMsgLen == 3
\* longest stdout of git diff / git log
MaxOutLen == 1

\* ---------------------------------------------------------------- text
Alphabet == {"a", " "}

StrUpTo(n) == UNION {[1..k -> Alphabet] : k \in 0..n}

IsSpace(c) == c = " "

RECURSIVE TrimStart(_)
TrimStart(s) ==
  IF s # <<>> /\ IsSpace(Head(s)) THEN TrimStart(Tail(s)) ELSE s

RECURSIVE TrimEnd(_)
TrimEnd(s) ==
  IF s # <<>> /\ IsSpace(s[Len(s)]) THEN TrimEnd(SubSeq(s, 1, Len(s) - 1)) ELSE s

\* String.prototype.trim
Trim(s) == TrimEnd(TrimStart(s))

\* Array.prototype.join(" ")
RECURSIVE Join(_)
Join(args) ==
  IF args = <<>> THEN <<>>
  ELSE IF Len(args) = 1 THEN args[1]
  ELSE args[1] \o <<" ">> \o Join(Tail(args))

\* optional values: undefined, or a value
None == [some |-> FALSE, val |-> <<>>]
Some(v) == [some |-> TRUE, val |-> v]
\* JavaScript truthiness of an optional string
Truthy(o) == o.some /\ o.val # <<>>

\* ---------------------------------------------------------------- state
VARIABLES
  options,        \* commander's parsed options
  env,            \* process.env
  pc,             \* position in the action
  stagedDiff,     \* const stagedDiff
  previousMsg,    \* let previousMsg
  commitMessage,  \* let commitMessage
  gitArgs,        \* const gitArgs
  calls,          \* external calls made so far, in order, with their outcome
  genCalls,       \* arguments of each generateCommitMessage call
  generated,      \* value generateCommitMessage returned
  requests,       \* what was sent to a generation backend
  lastStdout,     \* raw stdout of git diff and git log
  execArgs,       \* argument list handed to execa("git", gitArgs)
  printed,        \* the command line printed by the dry run
  out,            \* console lines
  exitCode        \* process exit code, -1 while running

vars == <<options, env, pc, stagedDiff, previousMsg, commitMessage, gitArgs,
          calls, genCalls, generated, requests, lastStdout, execArgs, printed, out,
          exitCode>>

\* ---------------------------------------------------------------- inputs
Flags == BOOLEAN
Messages == {None} \cup {Some(m) : m \in StrUpTo(MaxMsgLen)}
Types == {None, Some(<<"f", "e", "a", "t">>)}
Scopes == {None, Some(<<"a", "p", "i">>)}
Langs == {"english", "spanish"}
ApiKeys == {None, Some(<<>>), Some(<<"k">>)}

Options ==
  [message : Messages, all : Flags, amend : Flags, dryRun : Flags,
   verbose : Flags, type : Types, scope : Scopes, lang : Langs]

\* result of execa("git", ...) with captured stdout
GitOutcomes ==
  {[ok |-> FALSE, stdout |-> <<>>]} \cup
  {[ok |-> TRUE, stdout |-> s] : s \in StrUpTo(MaxOutLen)}

\* result of the relay round trip: fetch rejects, non-2xx status, res.json()
\* rejects, or a JSON body whose message field is present or not
RelayOutcomes ==
  {[kind |-> k, message |-> None] : k \in {"network", "status", "json"}} \cup
  {[kind |-> "data", message |-> m] : m \in Messages}

\* result of ai.models.generateContent: rejects, or a response whose text is
\* a string or undefined
GeminiOutcomes ==
  {[kind |-> "reject", text |-> None]} \cup
  {[kind |-> "response", text |-> t] : t \in Messages}

\* ---------------------------------------------------------------- words
git == <<"g", "i", "t">>
commit == <<"c", "o", "m", "m", "i", "t">>
amendFlag == <<"-", "-", "a", "m", "e", "n", "d">>
mFlag == <<"-", "m">>

\* ---------------------------------------------------------------- helpers
Verbose(lines) == IF options.verbose THEN lines ELSE <<>>

Call(cmd, ok) == [cmd |-> cmd, ok |-> ok]

\* process.exit(code), after printing lines
Exit(code, lines) ==
  /\ pc' = "done"
  /\ exitCode' = code
  /\ out' = out \o lines

\* handleError: print the message and the error's details, exit 1
handleError(lines, message, details) ==
  Exit(1, lines \o <<message, details, "Aborting commit process.">>)

\* mutant: the dry run also suppresses staging
stagesAll_M(opts) == opts.all /\ ~opts.dryRun

\* if (options.all)
stagesAll(opts) == opts.all

\* mutant: the amend test inverted
noStagedChanges_M(diff, opts) == diff = <<>> /\ opts.amend

\* mutant: the amend exemption dropped
noStagedChanges_NoAmend(diff, opts) == diff = <<>>

\* if (!stagedDiff && !options.amend)
noStagedChanges(diff, opts) == diff = <<>> /\ ~opts.amend

\* if (options.amend) previousMsg = await getLastCommitMessage()
fetchesPrevious(opts) == opts.amend

\* if (!commitMessage)
needsGeneration(opts) == ~Truthy(opts.message)

\* if (!process.env.GEMINI_API_KEY)
usesRelay(e) == ~Truthy(e.GEMINI_API_KEY)

\* mutant: the dry-run test dropped
executesCommit_M(opts) == TRUE

\* if (options.dryRun) ... else execa("git", gitArgs)
executesCommit(opts) == ~opts.dryRun

\* const gitArgs = ["commit"]; if (amend) push("--amend"); push("-m", msg)
buildGitArgs(opts, msg) ==
  <<commit>> \o (IF opts.amend THEN <<amendFlag>> ELSE <<>>) \o <<mFlag, msg>>

\* `$ git ${gitArgs.join(" ")}`
previewLine(args) == <<"$", " ">> \o git \o <<" ">> \o Join(args)

\* mutant: previousMsg not passed on
generateArgs_M ==
  [diff |-> stagedDiff.val, lang |-> options.lang, type |-> options.type,
   scope |-> options.scope, previousMsg |-> None]

\* the arguments generateCommitMessage is called with
generateArgs ==
  [diff |-> stagedDiff.val, lang |-> options.lang, type |-> options.type,
   scope |-> options.scope, previousMsg |-> previousMsg]

\* JSON.stringify({ diff, lang, type, scope, previousMsg }): undefined
\* fields are omitted
relayBody(a) ==
  [backend |-> "relay", diff |-> a.diff, lang |-> a.lang, type |-> a.type,
   scope |-> a.scope, previousMsg |-> a.previousMsg]

\* the prompt: an instruction is included only for a truthy argument
geminiPrompt(a) ==
  [backend |-> "gemini", diff |-> a.diff, lang |-> a.lang,
   type |-> IF Truthy(a.type) THEN a.type ELSE None,
   scope |-> IF Truthy(a.scope) THEN a.scope ELSE None,
   previousMsg |-> IF Truthy(a.previousMsg) THEN a.previousMsg ELSE None]

\* relay path: the message of the Error the path throws
relayError(r) ==
  IF r.kind = "network" THEN "Fallback API failed: fetch failed"
  ELSE IF r.kind = "status" THEN "Fallback API failed: API request failed with status"
  ELSE IF r.kind = "json" THEN "Fallback API failed: invalid JSON"
  ELSE "Fallback API failed: Fallback API returned an empty message."

\* Gemini path: the message of the Error the path throws
geminiError(r) ==
  IF r.kind = "reject" THEN "Google Gemini API call failed: rejected"
  ELSE "Google Gemini API call failed: Gemini returned an empty or invalid response."

\* relay path: the value returned, None when the path throws
relayResult(r) ==
  IF r.kind = "data" /\ Truthy(r.message) THEN r.message ELSE None

\* Gemini path: response.text?.trim(), None when the path throws
geminiResult(r) ==
  IF r.kind = "response" /\ r.text.some /\ Trim(r.text.val) # <<>>
  THEN Some(Trim(r.text.val)) ELSE None

\* ---------------------------------------------------------------- Init
Init ==
  /\ options \in Options
  /\ env \in [GEMINI_API_KEY : ApiKeys]
  /\ pc = "start"
  /\ stagedDiff = None
  /\ previousMsg = None
  /\ commitMessage = None
  /\ gitArgs = <<>>
  /\ calls = <<>>
  /\ genCalls = <<>>
  /\ generated = None
  /\ requests = <<>>
  /\ lastStdout = [diff |-> None, log |-> None]
  /\ execArgs = None
  /\ printed = None
  /\ out = <<>>
  /\ exitCode = -1

\* ---------------------------------------------------------------- actions
\* entry of the action, up to the first external call
Begin ==
  /\ pc = "start"
  /\ out' = out \o Verbose(<<"Starting commit process...">>)
                \o (IF stagesAll(options)
                    THEN Verbose(<<"Staging all changes...">>) ELSE <<>>)
  /\ pc' = IF stagesAll(options) THEN "add" ELSE "diff"
  /\ UNCHANGED <<options, env, stagedDiff, previousMsg, commitMessage, gitArgs,
                 calls, genCalls, generated, requests, lastStdout, execArgs, printed,
                 exitCode>>

\* await execa("git", ["add", "-A"])
StageAll ==
  /\ pc = "add"
  /\ \E ok \in BOOLEAN :
       /\ calls' = Append(calls, Call("git add", ok))
       /\ IF ok
          THEN pc' = "diff" /\ UNCHANGED <<out, exitCode>>
          ELSE handleError(<<>>, "Failed to stage all changes.", "stderr")
  /\ UNCHANGED <<options, env, stagedDiff, previousMsg, commitMessage, gitArgs,
                 genCalls, generated, requests, lastStdout, execArgs, printed>>

\* const stagedDiff = await getStagedDiff(); and the no-staged-changes exit
GetStagedDiff ==
  /\ pc = "diff"
  /\ \E r \in GitOutcomes :
       /\ calls' = Append(calls, Call("git diff", r.ok))
       /\ IF ~r.ok
          THEN /\ handleError(<<>>, "Could not retrieve staged diff.", "stderr")
               /\ UNCHANGED <<stagedDiff, lastStdout>>
          ELSE /\ stagedDiff' = Some(Trim(r.stdout))
               /\ lastStdout' = [lastStdout EXCEPT !.diff = Some(r.stdout)]
               /\ IF noStagedChanges(Trim(r.stdout), options)
                  THEN Exit(0, <<"No staged changes to commit.">>)
                  ELSE /\ pc' = IF fetchesPrevious(options) THEN "log" ELSE "message"
                       /\ out' = out \o
                            (IF fetchesPrevious(options)
                             THEN Verbose(<<"Fetching last commit message for context...">>)
                             ELSE <<>>)
                       /\ UNCHANGED exitCode
  /\ UNCHANGED <<options, env, previousMsg, commitMessage, gitArgs, genCalls, generated,
                 requests, execArgs, printed>>

\* mutant: a failing git log leaves previousMsg undefined and the flow goes on
GetLastCommitMessage_M ==
  /\ pc = "log"
  /\ \E r \in GitOutcomes :
       /\ calls' = Append(calls, Call("git log", r.ok))
       /\ previousMsg' = IF r.ok THEN Some(Trim(r.stdout)) ELSE None
       /\ lastStdout' = IF r.ok THEN [lastStdout EXCEPT !.log = Some(r.stdout)]
                        ELSE lastStdout
       /\ pc' = "message"
       /\ UNCHANGED <<out, exitCode>>
  /\ UNCHANGED <<options, env, stagedDiff, commitMessage, gitArgs, genCalls, generated,
                 requests, execArgs, printed>>

\* previousMsg = await getLastCommitMessage()
GetLastCommitMessage ==
  /\ pc = "log"
  /\ \E r \in GitOutcomes :
       /\ calls' = Append(calls, Call("git log", r.ok))
       /\ IF ~r.ok
          THEN /\ handleError(<<>>, "Could not retrieve the last commit message.",
                           "stderr")
               /\ UNCHANGED <<previousMsg, lastStdout>>
          ELSE /\ previousMsg' = Some(Trim(r.stdout))
               /\ lastStdout' = [lastStdout EXCEPT !.log = Some(r.stdout)]
               /\ pc' = "message"
               /\ UNCHANGED <<out, exitCode>>
  /\ UNCHANGED <<options, env, stagedDiff, commitMessage, gitArgs, genCalls, generated,
                 requests, execArgs, printed>>

\* let commitMessage = options.message; generation skipped
UseLiteralMessage ==
  /\ pc = "message"
  /\ ~needsGeneration(options)
  /\ commitMessage' = options.message
  /\ pc' = "commit"
  /\ UNCHANGED <<options, env, stagedDiff, previousMsg, gitArgs, calls, genCalls, generated,
                 requests, lastStdout, execArgs, printed, out, exitCode>>

\* mutant: a generation failure is swallowed and the flow goes on to commit
Generated_M(res, err) ==
  /\ commitMessage' = IF res.some THEN res ELSE options.message
  /\ generated' = IF res.some THEN res ELSE generated
  /\ pc' = "commit"
  /\ out' = out \o <<"Generating commit message with AI...">>
                \o (IF res.some THEN Verbose(<<"Message generated successfully.">>)
                    ELSE <<err>>)
  /\ UNCHANGED exitCode

\* the continuation after generateCommitMessage settles with result res
\* (None: it threw, and the top-level catch calls handleError)
Generated(res, err) ==
  IF res.some
  THEN /\ commitMessage' = res
       /\ generated' = res
       /\ pc' = "commit"
       /\ out' = out \o <<"Generating commit message with AI...">>
                     \o Verbose(<<"Message generated successfully.">>)
       /\ UNCHANGED exitCode
  ELSE /\ commitMessage' = options.message
       /\ UNCHANGED generated
       /\ handleError(<<"Generating commit message with AI...">>,
                      "An unexpected error occurred", err)

\* generateCommitMessage, fallback API path
GenerateViaRelay ==
  /\ pc = "message"
  /\ needsGeneration(options)
  /\ usesRelay(env)
  /\ genCalls' = Append(genCalls, generateArgs)
  /\ requests' = Append(requests, relayBody(generateArgs))
  /\ \E r \in RelayOutcomes :
       /\ calls' = Append(calls, Call("relay", relayResult(r).some))
       /\ Generated(relayResult(r), relayError(r))
  /\ UNCHANGED <<options, env, stagedDiff, previousMsg, gitArgs, lastStdout,
                 execArgs, printed>>

\* mutant: when the direct backend fails, the relay is tried next
GenerateViaGemini_M ==
  /\ pc = "message"
  /\ needsGeneration(options)
  /\ ~usesRelay(env)
  /\ genCalls' = Append(genCalls, generateArgs)
  /\ \E r \in GeminiOutcomes :
       IF geminiResult(r).some
       THEN /\ requests' = Append(requests, geminiPrompt(generateArgs))
            /\ calls' = Append(calls, Call("gemini", TRUE))
            /\ Generated(geminiResult(r), geminiError(r))
       ELSE \E rr \in RelayOutcomes :
              /\ requests' = requests \o <<geminiPrompt(generateArgs),
                                            relayBody(generateArgs)>>
              /\ calls' = calls \o <<Call("gemini", FALSE),
                                      Call("relay", relayResult(rr).some)>>
              /\ Generated(relayResult(rr), relayError(rr))
  /\ UNCHANGED <<options, env, stagedDiff, previousMsg, gitArgs, lastStdout,
                 execArgs, printed>>

\* generateCommitMessage, Google Gemini SDK path
GenerateViaGemini ==
  /\ pc = "message"
  /\ needsGeneration(options)
  /\ ~usesRelay(env)
  /\ genCalls' = Append(genCalls, generateArgs)
  /\ requests' = Append(requests, geminiPrompt(generateArgs))
  /\ \E r \in GeminiOutcomes :
       /\ calls' = Append(calls, Call("gemini", geminiResult(r).some))
       /\ Generated(geminiResult(r), geminiError(r))
  /\ UNCHANGED <<options, env, stagedDiff, previousMsg, gitArgs, lastStdout,
                 execArgs, printed>>

\* build the git command, then the dry-run branch
DryRun ==
  /\ pc = "commit"
  /\ ~executesCommit(options)
  /\ gitArgs' = buildGitArgs(options, commitMessage.val)
  /\ printed' = Some(previewLine(gitArgs'))
  /\ Exit(0, <<"COMMIT READY",
               "Dry Run: The following command will not be executed:">>)
  /\ UNCHANGED <<options, env, stagedDiff, previousMsg, commitMessage, calls,
                 genCalls, generated, requests, lastStdout, execArgs>>

\* build the git command, then await execa("git", gitArgs)
ExecuteCommit ==
  /\ pc = "commit"
  /\ executesCommit(options)
  /\ gitArgs' = buildGitArgs(options, commitMessage.val)
  /\ execArgs' = Some(gitArgs')
  /\ \E ok \in BOOLEAN :
       /\ calls' = Append(calls, Call("git commit", ok))
       /\ IF ok
          THEN Exit(0, <<"COMMIT READY", "Executing commit...",
                         "Commit completed successfully!">>)
          ELSE handleError(<<"COMMIT READY", "Executing commit...">>,
                           "The git commit command failed.", "stderr")
  /\ UNCHANGED <<options, env, stagedDiff, previousMsg, commitMessage, genCalls, generated,
                 requests, lastStdout, printed>>

Next ==
  \/ Begin
  \/ StageAll
  \/ GetStagedDiff
  \/ GetLastCommitMessage
  \/ UseLiteralMessage
  \/ GenerateViaRelay
  \/ GenerateViaGemini
  \/ DryRun
  \/ ExecuteCommit

Spec == Init /\ [][Next]_vars

TypeOK ==
  /\ options \in Options
  /\ pc \in {"start", "add", "diff", "log", "message", "commit", "done"}
  /\ exitCode \in {-1, 0, 1}
  /\ (pc = "done") = (exitCode # -1)

\* ---------------------------------------------------------------- properties
Called(cmd) == \E i \in DOMAIN calls : calls[i].cmd = cmd
Failed(cmd) == \E i \in DOMAIN calls : calls[i].cmd = cmd /\ ~calls[i].ok
Count(cmd) == Cardinality({i \in DOMAIN calls : calls[i].cmd = cmd})
Position(cmd) == CHOOSE i \in DOMAIN calls : calls[i].cmd = cmd
Printed(line) == \E i \in DOMAIN out : out[i] = line

NoGeneration == genCalls = <<>> /\ requests = <<>> /\ ~Called("relay") /\ ~Called("gemini")
NoCommit == ~Called("git commit") /\ ~execArgs.some
\* the commit stage was reached: the git command was built
ReachedCommitStage == gitArgs # <<>>

\* a command line split into arguments at blanks, as a shell does with
\* unquoted text
RECURSIVE SplitWords(_, _, _)
SplitWords(s, cur, acc) ==
  IF s = <<>> THEN (IF cur = <<>> THEN acc ELSE Append(acc, cur))
  ELSE IF Head(s) = " "
       THEN SplitWords(Tail(s), <<>>, IF cur = <<>> THEN acc ELSE Append(acc, cur))
       ELSE SplitWords(Tail(s), Append(cur, Head(s)), acc)
ShellWords(s) == SplitWords(s, <<>>, <<>>)

\* C1: an empty staged diff (after trimming) without --amend ends the process
\* with exit code 0, with no generation call and no git commit, whatever the
\* other options are.
C1_EmptyDiffIsNoOp ==
  (stagedDiff.some /\ stagedDiff.val = <<>> /\ ~options.amend)
    => (pc = "done" /\ exitCode = 0 /\ NoGeneration /\ NoCommit)

C1_Witness ==
  /\ stagedDiff = Some(<<>>)
  /\ lastStdout.diff = Some(<<" ">>)
  /\ ~options.amend
  /\ options.all /\ ~options.message.some
  /\ exitCode = 0

\* C2 (as stated): whenever a literal message is supplied with --message,
\* whatever its value, generation is never called and the supplied message is
\* the one used for the commit command.
C2_LiteralSkipsGeneration ==
  options.message.some
    => /\ NoGeneration
       /\ ReachedCommitStage => gitArgs[Len(gitArgs)] = options.message.val

\* C3: with --dry-run the git commit command is never executed, and once the
\* commit stage is reached the process ends with exit code 0 having only
\* printed the command.
C3_DryRunNeverCommits ==
  options.dryRun
    => /\ NoCommit
       /\ ReachedCommitStage
            => (pc = "done" /\ exitCode = 0 /\ printed = Some(previewLine(gitArgs)))

C3_Witness ==
  /\ options.dryRun /\ options.all /\ ~options.message.some
  /\ ReachedCommitStage
  /\ printed.some
  /\ exitCode = 0

\* C4 (as stated): the command line the dry run prints, read as a command, is
\* the program and the argument list a run without --dry-run executes for the
\* same options and message: the message is the single argument after -m.
C4_PreviewMatchesExecution ==
  printed.some
    => ShellWords(printed.val)
         = <<<<"$">>, git>> \o buildGitArgs([options EXCEPT !.dryRun = FALSE],
                                            commitMessage.val)

\* C5: within one generateCommitMessage call exactly one backend is contacted,
\* the direct one when GEMINI_API_KEY is set (non-empty) and the relay when it
\* is not, also after the selected backend failed or returned nothing.
KeyPresent == env.GEMINI_API_KEY.some /\ env.GEMINI_API_KEY.val # <<>>

C5_BackendsExclusive ==
  /\ KeyPresent => ~Called("relay")
  /\ ~KeyPresent => ~Called("gemini")
  /\ Count("relay") + Count("gemini") = Len(genCalls)
  /\ Len(requests) = Len(genCalls)
  /\ \A i \in DOMAIN requests :
       requests[i].backend = IF KeyPresent THEN "gemini" ELSE "relay"

C5_Witness ==
  /\ KeyPresent
  /\ Failed("gemini")
  /\ pc = "done"
  /\ Len(genCalls) = 1

\* C6: with --amend, when git log fails the invocation ends with exit code 1
\* with no generation call made and no commit executed, with or without a
\* literal message.
C6_AmendWithoutHistoryFails ==
  Failed("git log")
    => (pc = "done" /\ exitCode = 1 /\ NoGeneration /\ NoCommit)

C6_Witness ==
  /\ options.amend
  /\ Failed("git log")
  /\ ~options.message.some
  /\ exitCode = 1

\* C7: a failed external call is the last call made, is made once, and ends
\* the process with exit code 1; no call is ever made twice.
C7_FailFast ==
  /\ \A i \in DOMAIN calls :
       ~calls[i].ok => (i = Len(calls) /\ pc = "done" /\ exitCode = 1)
  /\ \A i, j \in DOMAIN calls : calls[i].cmd = calls[j].cmd => i = j
  /\ (Failed("relay") \/ Failed("gemini")) => NoCommit /\ ~ReachedCommitStage

C7_Witness ==
  /\ Failed("relay")
  /\ Printed("Fallback API failed: Fallback API returned an empty message.")
  /\ ~options.dryRun
  /\ exitCode = 1

\* C8: with --all, git add -A is invoked exactly once and has completed
\* before the staged diff is captured, with --dry-run too; without --all it
\* is never invoked.
C8_StageAllBeforeDiff ==
  /\ options.all
       => /\ Count("git add") <= 1
          /\ pc \notin {"start", "add"} => Count("git add") = 1
          /\ Called("git diff")
               => (Position("git add") < Position("git diff")
                   /\ calls[Position("git add")].ok)
  /\ ~options.all => ~Called("git add")

C8_Witness ==
  /\ options.all /\ options.dryRun
  /\ stagedDiff.some
  /\ printed.some

\* C9: git log -1 is called exactly when --amend is set and the staged-diff
\* check has been passed; generation receives the fetched message as
\* previousMsg when amending and no previous message otherwise.
PassedDiffCheck ==
  stagedDiff.some /\ ~(stagedDiff.val = <<>> /\ ~options.amend)

C9_PreviousMessage ==
  /\ Called("git log") <=> (options.amend /\ PassedDiffCheck /\ pc # "log")
  /\ \A i \in DOMAIN genCalls :
       IF options.amend
       THEN /\ lastStdout.log.some
            /\ genCalls[i].previousMsg = Some(Trim(lastStdout.log.val))
       ELSE genCalls[i].previousMsg = None

C9_Witness ==
  /\ options.amend
  /\ lastStdout.log = Some(<<"a">>)
  /\ Len(genCalls) = 1
  /\ genCalls[1].previousMsg = Some(<<"a">>)

\* C10 (as stated): the commit arguments are commit, then --amend exactly when
\* amending, then -m and the message as one argument, the message being the
\* literal message the user supplied or, when none was supplied, the string
\* generateCommitMessage returned.
C10_CommitArguments ==
  ReachedCommitStage
    => gitArgs = <<commit>>
                   \o (IF options.amend THEN <<amendFlag>> ELSE <<>>)
                   \o <<mFlag, IF options.message.some
                               THEN options.message.val ELSE generated.val>>

\* C11 (as stated): on both backend paths the backend's text is trimmed and
\* an empty trimmed text is a failure, so every message generateCommitMessage
\* returns is non-empty and has no leading or trailing whitespace.
C11_GeneratedIsTrimmed ==
  generated.some
    => (generated.val # <<>> /\ Trim(generated.val) = generated.val)

\* C12: with --amend and an empty staged diff the invocation does not take
\* the no-op exit: git log is called next; when it succeeds and no literal
\* message was supplied, generation is called with the empty diff; and the
\* commit stage, when reached, builds the command with --amend.
C12_AmendWithEmptyDiffGoesOn ==
  (options.amend /\ stagedDiff = Some(<<>>))
    => /\ pc # "log" => Called("git log")
       /\ (pc \in {"commit", "done"} /\ ~Failed("git log") /\ ~options.message.some)
            => (Len(genCalls) = 1 /\ genCalls[1].diff = <<>>
                /\ genCalls[1].previousMsg = previousMsg)
       /\ (pc = "done" /\ \A i \in DOMAIN calls : calls[i].ok) => ReachedCommitStage
       /\ ReachedCommitStage
            => (gitArgs = <<commit, amendFlag, mFlag, commitMessage.val>>
                /\ (execArgs.some => execArgs.val = gitArgs))

C12_Witness ==
  /\ options.amend
  /\ stagedDiff = Some(<<>>)
  /\ ~options.message.some
  /\ Len(genCalls) = 1 /\ genCalls[1].diff = <<>>
  /\ execArgs.some
  /\ exitCode = 0

====
